---------------------------- MODULE Spec2Model ----------------------------
(***************************************************************************)
(* Upload routes of the smart-contract test backend (upload_routes.py):    *)
(* extension validation, artifact cleanup, the two upload handlers and the *)
(* two results handlers, together with the remote test runner they call.   *)
(*                                                                         *)
(* Strings are sequences of one-character strings, so that splitext, stem, *)
(* strip, lower and glob matching are computed character by character.     *)
(* Paths follow the POSIX flavour of os.path and pathlib (separator "/").  *)
(***************************************************************************)
EXTENDS Naturals, Sequences, FiniteSets, TLC

VARIABLES
    fname,      \* names specification: the filename under study
    outcome,    \* names specification: what the last probe computed
    req,        \* per request: endpoint, filename, handler locals, response
    fs,         \* local files: records [type, dir, name]
    dirs,       \* local directories that exist: records [type, dir]
    remote,     \* the remote runner: stored inputs and reports
    loop,       \* per worker process: the request its event loop is running
    sole        \* the request that alone has taken steps since it started

vars == <<fname, outcome, req, fs, dirs, remote, loop, sole>>

---------------------------------------------------------------------------
(* Characters and strings                                                  *)

None == "none"

\* str.lower() on the characters the bounded inputs use
Lower(c) ==
    CASE c = "A" -> "a"
      [] c = "B" -> "b"
      [] c = "S" -> "s"
      [] OTHER -> c

LowerStr(s) == [i \in 1..Len(s) |-> Lower(s[i])]

IsSpace(c) == c = " "

\* str.strip(): drop leading and trailing whitespace
RECURSIVE LStrip(_)
LStrip(s) == IF s # <<>> /\ IsSpace(Head(s)) THEN LStrip(Tail(s)) ELSE s

RECURSIVE RStrip(_)
RStrip(s) ==
    IF s # <<>> /\ IsSpace(s[Len(s)]) THEN RStrip(SubSeq(s, 1, Len(s) - 1)) ELSE s

StripWs(s) == RStrip(LStrip(s))

\* str.rfind(c) + 1: the last position of c in s, 0 when absent
RFind(s, c) ==
    LET hits == {i \in 1..Len(s) : s[i] = c}
    IN  IF hits = {} THEN 0 ELSE CHOOSE i \in hits : \A j \in hits : j <= i

\* str.split(sep)
RECURSIVE Split(_, _)
Split(s, sep) ==
    LET hits == {i \in 1..Len(s) : s[i] = sep}
    IN  IF hits = {} THEN <<s>>
        ELSE LET i == CHOOSE k \in hits : \A j \in hits : k <= j
             IN  <<SubSeq(s, 1, i - 1)>> \o Split(SubSeq(s, i + 1, Len(s)), sep)

---------------------------------------------------------------------------
(* Library functions the handlers call                                     *)

\* os.path.splitext(p)[1]: the text from the last dot of the last path
\* component, unless that component has only dots before it
SplitExt(p) ==
    LET sepIndex == RFind(p, "/")
        dotIndex == RFind(p, ".")
    IN  IF dotIndex > sepIndex
           /\ \E k \in (sepIndex + 1)..(dotIndex - 1) : p[k] # "."
        THEN SubSeq(p, dotIndex, Len(p))
        ELSE <<>>

\* pathlib.PurePath(p).name: the last component that is neither empty nor "."
PathName(p) ==
    LET parts == SelectSeq(Split(p, "/"), LAMBDA x : x # <<>> /\ x # <<".">>)
    IN  IF parts = <<>> THEN <<>> ELSE parts[Len(parts)]

\* pathlib.PurePath(p).stem: the name without its suffix; the suffix starts at
\* the last dot when that dot is neither the first nor the last character
Stem(p) ==
    LET name == PathName(p)
        i == RFind(name, ".")
    IN  IF i > 1 /\ i < Len(name) THEN SubSeq(name, 1, i - 1) ELSE name

\* fnmatch.fnmatchcase(name, pat) for patterns of literal characters and "*"
RECURSIVE FnMatch(_, _)
FnMatch(name, pat) ==
    IF pat = <<>> THEN name = <<>>
    ELSE IF Head(pat) = "*"
         THEN FnMatch(name, Tail(pat)) \/ (name # <<>> /\ FnMatch(Tail(name), pat))
         ELSE name # <<>> /\ Head(name) = Head(pat) /\ FnMatch(Tail(name), Tail(pat))

\* glob.glob(os.path.join(dir, pat)) over the names of one directory: names
\* starting with a dot are matched only by a pattern starting with a dot
GlobNames(names, pat) ==
    LET hidden(x) == x # <<>> /\ Head(x) = "."
    IN  {n \in names : (hidden(pat) \/ ~hidden(n)) /\ FnMatch(n, pat)}

---------------------------------------------------------------------------
(* upload_routes.py: constants and helpers                                 *)

ALLOWED_EVM_EXTENSIONS == {<<".", "s", "o", "l">>, <<".", "t", "x", "t">>}
ALLOWED_NON_EVM_EXTENSIONS == {<<".", "r", "s">>, <<".", "w", "a", "s", "m">>}

EVM == "evm"
NON_EVM == "non-evm"

ReportSuffix == <<"-", "r", "e", "p", "o", "r", "t", ".", "m", "d">>

\* validate_extension comparing the extension as written
validate_extension_cased(filename, allowed_extensions) ==
    LET ext == SplitExt(filename)
    IN  IF ext \notin allowed_extensions
        THEN [status_code |-> 400, detail |-> ext]
        ELSE [status_code |-> 0, detail |-> <<>>]

\* validate_extension reporting the extension as written
validate_extension_raw_detail(filename, allowed_extensions) ==
    LET ext == LowerStr(SplitExt(filename))
    IN  IF ext \notin allowed_extensions
        THEN [status_code |-> 400, detail |-> SplitExt(filename)]
        ELSE [status_code |-> 0, detail |-> <<>>]

\* validate_extension: the HTTPException it raises (status_code 0: none);
\* detail is the <ext> of f"File type {ext} not allowed."
validate_extension(filename, allowed_extensions) ==
    LET ext == LowerStr(SplitExt(filename))
    IN  IF ext \notin allowed_extensions
        THEN [status_code |-> 400, detail |-> ext]
        ELSE [status_code |-> 0, detail |-> <<>>]

\* base_name = Path(contract_file.filename).stem.strip().lower()
base_name(filename) == LowerStr(StripWs(Stem(filename)))

\* report_filename = f"{base_name}-report.md" in the upload handlers
upload_report_filename(base) == base \o ReportSuffix

\* the results handlers' derivation without strip()
results_report_filename_unstripped(filename) ==
    LowerStr(Stem(filename)) \o ReportSuffix

\* the results handlers' derivation without lower()
results_report_filename_cased(filename) ==
    StripWs(Stem(filename)) \o ReportSuffix

\* base and report_filename in get_test_results / get_non_evm_test_results
results_report_filename(filename) ==
    LowerStr(StripWs(Stem(filename))) \o ReportSuffix


---------------------------------------------------------------------------
(* The four routes                                                         *)

UPLOAD_EVM == "upload-evm"
UPLOAD_NON_EVM == "upload-non-evm"
RESULTS == "results"
RESULTS_NON_EVM == "results/non-evm"

UploadEndpoints == {UPLOAD_EVM, UPLOAD_NON_EVM}
ResultsEndpoints == {RESULTS, RESULTS_NON_EVM}
Endpoints == UploadEndpoints \cup ResultsEndpoints

\* the allow-set each upload handler hands to validate_extension
AllowedOf(endpoint) ==
    IF endpoint = UPLOAD_EVM THEN ALLOWED_EVM_EXTENSIONS
    ELSE ALLOWED_NON_EVM_EXTENSIONS

\* the contract type each handler passes to cleanup and to the remote runner
TypeOf(endpoint) ==
    IF endpoint \in {UPLOAD_EVM, RESULTS} THEN EVM ELSE NON_EVM

\* the report filename each handler asks the remote runner for
ReportNameOf(endpoint, filename) ==
    IF endpoint \in UploadEndpoints
    THEN upload_report_filename(base_name(filename))
    ELSE results_report_filename(filename)

---------------------------------------------------------------------------
(* Bounded filenames: concatenations of at most MaxTokens tokens           *)

MaxTokens == 3

Tokens ==
    { <<"a">>, <<"B">>, <<" ">>, <<".">>, <<"/">>, <<"*">>,
      <<".", "s", "o", "l">>, <<".", "S", "o", "l">>, <<".", "t", "x", "t">>,
      <<".", "r", "s">>, <<".", "w", "a", "s", "m">> }

RECURSIVE NamesOf(_)
NamesOf(k) ==
    IF k = 0 THEN {<<>>}
    ELSE LET shorter == NamesOf(k - 1)
         IN  shorter \cup {n \o t : n \in shorter, t \in Tokens}

Filenames == NamesOf(MaxTokens)

---------------------------------------------------------------------------
(* Requests, worker processes, local artifacts                             *)

\* two requests in flight: every pairwise interleaving of the handlers
Requests == {1, 2}

\* Server processes. Each runs one event loop: a handler keeps the loop from
\* its first statement to its next await (or its end), so handlers of one
\* worker interleave only at an await, handlers of different workers at
\* every call.
Workers == {"w1", "w2"}

Types == {EVM, NON_EVM}
INPUT_DIR == "uploaded_contracts"
REPORT_DIR == "test_summaries"

\* filenames the requests of the handler specification carry
SampleNames ==
    { <<"A", "b", ".", "S", "o", "l">>,     \* Ab.Sol
      <<"a", "b", ".", "t", "x", "t">>,     \* ab.txt
      <<"a", "*", ".", "s", "o", "l">>,     \* a*.sol
      <<"a", "b", ".", "r", "s">> }         \* ab.rs

\* local artifacts that may exist before the first request
LocalFiles ==
    { [type |-> EVM, dir |-> INPUT_DIR, name |-> <<"a", "b", ".", "s", "o", "l">>],
      [type |-> EVM, dir |-> REPORT_DIR, name |-> <<"a", "b", "-", "r">>],
      [type |-> EVM, dir |-> INPUT_DIR, name |-> <<"a", "c">>],
      [type |-> NON_EVM, dir |-> INPUT_DIR, name |-> <<"a", "b", ".", "r", "s">>] }

DirOf(file) == [type |-> file.type, dir |-> file.dir]

\* a response: status 0 while the request is unanswered
NoResponse ==
    [ status |-> 0, detail |-> <<>>, cache_control |-> None, message |-> None,
      filename |-> <<>>, docker_logs |-> <<>>, aggregated_report |-> <<>> ]

\* the request body of request r
Payload(r) == <<"bytes", r>>

NewRequest ==
    [ pc |-> "new", endpoint |-> None, filename |-> <<>>, worker |-> None,
      base |-> <<>>, contents |-> <<>>, logs |-> <<>>, aggregated |-> <<>>,
      steps |-> <<>>, calls |-> <<>>, made |-> {}, seen |-> {},
      attempted |-> {}, failed |-> {}, raised |-> None, response |-> NoResponse ]

---------------------------------------------------------------------------
(* remote_docker_api: the remote runner, keyed by (name, contract type)    *)

Lookup(store, name, type) ==
    LET hit == {x \in store : x.name = name /\ x.type = type}
    IN  IF hit = {} THEN <<>> ELSE (CHOOSE x \in hit : TRUE).value

Put(store, name, type, value) ==
    {x \in store : ~(x.name = name /\ x.type = type)}
        \cup {[name |-> name, type |-> type, value |-> value]}

\* what a test run over the given bytes logs and reports
LogsOf(bytes) == <<"logs", bytes>>
ReportOf(bytes) == <<"report", bytes>>

\* the name under which the runner files the report of a contract
RunnerReportName(filename) == LowerStr(StripWs(Stem(filename))) \o ReportSuffix

\* upload_to_remote_container_memory(contents, filename, type)
upload_to_remote_container_memory(rem, contents, filename, type) ==
    [rem EXCEPT !.inputs = Put(@, filename, type, contents)]

\* trigger_docker_test(filename, type): runs the stored contract, files its
\* report, returns the logs
trigger_docker_test(rem, filename, type) ==
    LET bytes == Lookup(rem.inputs, filename, type)
    IN  [ logs |-> LogsOf(bytes),
          rem |-> [rem EXCEPT !.reports =
                      Put(@, RunnerReportName(filename), type, ReportOf(bytes))] ]

\* fetch_from_remote_container(report_filename, type): <<>> when missing
fetch_from_remote_container(rem, report_filename, type) ==
    Lookup(rem.reports, report_filename, type)

---------------------------------------------------------------------------
(* Handler steps                                                           *)

CACHE_CONTROL == "no-store, no-cache, must-revalidate, max-age=0"

\* the statements of an upload handler, in program order
UploadOrder ==
    <<"validate", "cleanup", "read", "upload", "trigger", "fetch", "return">>

\* the statement order with the test triggered before the bytes are uploaded
NextPc_trigger_first(pc) ==
    CASE pc = "validate" -> "makedirs"
      [] pc = "makedirs" -> "clean_input"
      [] pc = "clean_input" -> "clean_report"
      [] pc = "clean_report" -> "read"
      [] pc = "read" -> "trigger"
      [] pc = "trigger" -> "upload"
      [] pc = "upload" -> "fetch"
      [] pc = "fetch" -> "respond"
      [] OTHER -> "done"

\* the handler position that follows a completed step
NextPc(pc) ==
    CASE pc = "validate" -> "makedirs"
      [] pc = "makedirs" -> "clean_input"
      [] pc = "clean_input" -> "clean_report"
      [] pc = "clean_report" -> "read"
      [] pc = "read" -> "upload"
      [] pc = "upload" -> "trigger"
      [] pc = "trigger" -> "fetch"
      [] pc = "fetch" -> "respond"
      [] OTHER -> "done"

\* request r may take a step: its worker's event loop is free or runs r
MayRun(r) == loop[req[r].worker] \in {0, r}

\* r is the only request that has taken steps since it started
SoleAfter(r) == IF req[r].pc = "new" \/ sole = r THEN r ELSE 0

\* an exception leaves the handler: the framework answers 500
ServerError(rec, by) ==
    [rec EXCEPT !.pc = "done", !.raised = by,
                !.response = [NoResponse EXCEPT !.status = 500]]

\* a cleanup that looks only for the file named exactly contract_name
cleanup_matches_exact(files, contract_name, contract_type, dir) ==
    {f \in files : f.type = contract_type /\ f.dir = dir /\ f.name = contract_name}

\* the files of one directory that glob.glob(f"{contract_name}*") returns
cleanup_matches(files, contract_name, contract_type, dir) ==
    LET here == {f \in files : f.type = contract_type /\ f.dir = dir}
        hits == GlobNames({f.name : f \in here}, contract_name \o <<"*">>)
    IN  {f \in here : f.name \in hits}

\* a cleanup without the try/except around os.remove
remove_raises_unhandled(failedNow) == failedNow # {}

\* whether a failed os.remove leaves cleanup_old_artifacts as an exception
remove_raises(failedNow) == FALSE

\* a results response without the headers argument
results_response_plain(endpoint, filename, aggregated) ==
    [NoResponse EXCEPT !.status = 200, !.filename = filename,
                       !.aggregated_report = aggregated]

\* the JSONResponse of the two results handlers
results_response(endpoint, filename, aggregated) ==
    [NoResponse EXCEPT !.status = 200, !.filename = filename,
                       !.aggregated_report = aggregated,
                       !.cache_control = CACHE_CONTROL]

\* the JSONResponse of the two upload handlers
upload_response(endpoint, filename, logs, aggregated) ==
    [NoResponse EXCEPT !.status = 200,
        !.message = IF endpoint = UPLOAD_EVM THEN "EVM contract processed"
                    ELSE "Non-EVM contract processed",
        !.filename = filename, !.docker_logs = logs,
        !.aggregated_report = aggregated]

\* validate_extension(contract_file.filename, ALLOWED_..._EXTENSIONS)
validation(endpoint, filename) == validate_extension(filename, AllowedOf(endpoint))

\* validate_extension, then base_name
Validate(r) ==
    \E e \in UploadEndpoints, f \in SampleNames, w \in Workers :
        /\ req[r].pc = "new"
        /\ loop[w] = 0
        /\ LET exc == validation(e, f)
               rec == [req[r] EXCEPT !.endpoint = e, !.filename = f, !.worker = w,
                                     !.seen = fs, !.steps = <<"validate">>]
           IN  IF exc.status_code # 0
               THEN /\ req' = [req EXCEPT ![r] =
                          [rec EXCEPT !.pc = "done", !.raised = "validate",
                              !.response = [NoResponse EXCEPT
                                  !.status = exc.status_code,
                                  !.detail = exc.detail]]]
                    /\ loop' = loop
               ELSE /\ req' = [req EXCEPT ![r] =
                          [rec EXCEPT !.pc = NextPc("validate"),
                                      !.base = base_name(f)]]
                    /\ loop' = [loop EXCEPT ![w] = r]
        /\ sole' = SoleAfter(r)
        /\ UNCHANGED <<fname, outcome, fs, dirs, remote>>

\* cleanup_old_artifacts: the two os.makedirs(..., exist_ok=True)
MakeDirs(r) ==
    /\ req[r].pc = "makedirs"
    /\ MayRun(r)
    /\ LET type == TypeOf(req[r].endpoint)
           both == {[type |-> type, dir |-> INPUT_DIR],
                    [type |-> type, dir |-> REPORT_DIR]}
       IN  \/ /\ dirs' = dirs \cup both
              /\ req' = [req EXCEPT ![r].pc = NextPc("makedirs"),
                                    ![r].made = both \ dirs]
              /\ loop' = [loop EXCEPT ![req[r].worker] = r]
           \/ /\ ~(both \subseteq dirs)         \* creating a directory fails
              /\ dirs' = dirs
              /\ req' = [req EXCEPT ![r] = ServerError(@, "makedirs")]
              /\ loop' = [loop EXCEPT ![req[r].worker] = 0]
    /\ sole' = SoleAfter(r)
    /\ UNCHANGED <<fname, outcome, fs, remote>>

\* cleanup_old_artifacts: glob one directory and os.remove every match;
\* failedNow are the files whose os.remove raises
Clean(r, dir) ==
    /\ MayRun(r)
    /\ LET matches == cleanup_matches(fs, req[r].base, TypeOf(req[r].endpoint), dir)
       IN  \E failedNow \in SUBSET matches :
             /\ fs' = fs \ (matches \ failedNow)
             /\ IF remove_raises(failedNow)
                THEN /\ req' = [req EXCEPT ![r] =
                           ServerError([@ EXCEPT !.attempted = @ \cup matches,
                                                 !.failed = @ \cup failedNow],
                                       "cleanup")]
                     /\ loop' = [loop EXCEPT ![req[r].worker] = 0]
                ELSE /\ req' = [req EXCEPT
                           ![r].pc = NextPc(req[r].pc),
                           ![r].attempted = @ \cup matches,
                           ![r].failed = @ \cup failedNow,
                           ![r].steps = IF dir = REPORT_DIR
                                        THEN Append(@, "cleanup") ELSE @]
                     /\ loop' = [loop EXCEPT ![req[r].worker] = r]
    /\ sole' = SoleAfter(r)
    /\ UNCHANGED <<fname, outcome, dirs, remote>>

CleanInput(r) == req[r].pc = "clean_input" /\ Clean(r, INPUT_DIR)

CleanReport(r) == req[r].pc = "clean_report" /\ Clean(r, REPORT_DIR)

\* contents = await contract_file.read(): the handler's only await
Read(r) ==
    /\ req[r].pc = "read"
    /\ MayRun(r)
    /\ req' = [req EXCEPT ![r].pc = NextPc("read"),
                          ![r].contents = Payload(r),
                          ![r].steps = Append(@, "read")]
    /\ loop' = [loop EXCEPT ![req[r].worker] = 0]
    /\ sole' = SoleAfter(r)
    /\ UNCHANGED <<fname, outcome, fs, dirs, remote>>

\* a call of the remote runner, as the handler makes it
Call(op, name, type) == [op |-> op, name |-> name, type |-> type]

\* upload_to_remote_container_memory(contents, contract_file.filename, type)
Upload(r) ==
    /\ req[r].pc = "upload"
    /\ MayRun(r)
    /\ LET type == TypeOf(req[r].endpoint)
           rec == [req[r] EXCEPT
                      !.calls = Append(@, Call("upload", req[r].filename, type))]
       IN  \/ /\ remote' = upload_to_remote_container_memory(
                              remote, req[r].contents, req[r].filename, type)
              /\ req' = [req EXCEPT ![r] =
                            [rec EXCEPT !.pc = NextPc("upload"),
                                        !.steps = Append(@, "upload")]]
              /\ loop' = [loop EXCEPT ![req[r].worker] = r]
           \/ /\ remote' = remote                \* the runner raises
              /\ req' = [req EXCEPT ![r] = ServerError(rec, "upload")]
              /\ loop' = [loop EXCEPT ![req[r].worker] = 0]
    /\ sole' = SoleAfter(r)
    /\ UNCHANGED <<fname, outcome, fs, dirs>>

\* logs = trigger_docker_test(contract_file.filename, type)
Trigger(r) ==
    /\ req[r].pc = "trigger"
    /\ MayRun(r)
    /\ LET type == TypeOf(req[r].endpoint)
           run == trigger_docker_test(remote, req[r].filename, type)
           rec == [req[r] EXCEPT
                      !.calls = Append(@, Call("trigger", req[r].filename, type))]
       IN  \/ /\ remote' = run.rem
              /\ req' = [req EXCEPT ![r] =
                            [rec EXCEPT !.pc = NextPc("trigger"),
                                        !.logs = run.logs,
                                        !.steps = Append(@, "trigger")]]
              /\ loop' = [loop EXCEPT ![req[r].worker] = r]
           \/ /\ remote' = remote                \* the runner raises
              /\ req' = [req EXCEPT ![r] = ServerError(rec, "trigger")]
              /\ loop' = [loop EXCEPT ![req[r].worker] = 0]
    /\ sole' = SoleAfter(r)
    /\ UNCHANGED <<fname, outcome, fs, dirs>>

\* report_filename, then fetch_from_remote_container(report_filename, type)
Fetch(r) ==
    /\ req[r].pc = "fetch"
    /\ MayRun(r)
    /\ LET type == TypeOf(req[r].endpoint)
           report_filename == upload_report_filename(req[r].base)
           got == fetch_from_remote_container(remote, report_filename, type)
           rec == [req[r] EXCEPT
                      !.calls = Append(@, Call("fetch", report_filename, type))]
       IN  \/ /\ got # <<>>
              /\ req' = [req EXCEPT ![r] =
                            [rec EXCEPT !.pc = NextPc("fetch"),
                                        !.aggregated = got,
                                        !.steps = Append(@, "fetch")]]
              /\ loop' = [loop EXCEPT ![req[r].worker] = r]
           \/ /\ req' = [req EXCEPT ![r] = ServerError(rec, "fetch")]
              /\ loop' = [loop EXCEPT ![req[r].worker] = 0]
    /\ sole' = SoleAfter(r)
    /\ UNCHANGED <<fname, outcome, fs, dirs, remote>>

\* process_evm_contract / process_non_evm_contract, then return JSONResponse
Respond(r) ==
    /\ req[r].pc = "respond"
    /\ MayRun(r)
    /\ req' = [req EXCEPT
          ![r].pc = NextPc("respond"),
          ![r].steps = Append(@, "return"),
          ![r].response = upload_response(req[r].endpoint, req[r].filename,
                                          req[r].logs, req[r].aggregated)]
    /\ loop' = [loop EXCEPT ![req[r].worker] = 0]
    /\ sole' = SoleAfter(r)
    /\ UNCHANGED <<fname, outcome, fs, dirs, remote>>

\* get_test_results / get_non_evm_test_results: no await, one step
GetResults(r) ==
    \E e \in ResultsEndpoints, f \in SampleNames, w \in Workers :
        /\ req[r].pc = "new"
        /\ loop[w] = 0
        /\ LET type == TypeOf(e)
               report_filename == results_report_filename(f)
               got == fetch_from_remote_container(remote, report_filename, type)
               rec == [req[r] EXCEPT
                          !.endpoint = e, !.filename = f, !.worker = w, !.seen = fs,
                          !.calls = <<Call("fetch", report_filename, type)>>]
           IN  \/ /\ got # <<>>
                  /\ req' = [req EXCEPT ![r] =
                                [rec EXCEPT !.pc = "done",
                                            !.aggregated = got,
                                            !.steps = <<"fetch", "return">>,
                                            !.response = results_response(e, f, got)]]
               \/ req' = [req EXCEPT ![r] = ServerError(rec, "fetch")]
        /\ sole' = SoleAfter(r)
        /\ UNCHANGED <<fname, outcome, fs, dirs, remote, loop>>

---------------------------------------------------------------------------
(* Specification of the handlers                                           *)

NoOutcome ==
    [ op |-> None, endpoint |-> None, other |-> <<>>, result |-> None,
      detail |-> <<>>, report |-> <<>>, reportOther |-> <<>> ]

IdleNames == fname = <<>> /\ outcome = NoOutcome

Init ==
    /\ IdleNames
    /\ req = [r \in Requests |-> NewRequest]
    /\ fs \in {{}, LocalFiles}        \* a fresh install, or earlier artifacts
    /\ dirs = {DirOf(f) : f \in fs}
    /\ remote = [inputs |-> {}, reports |-> {}]
    /\ loop = [w \in Workers |-> 0]
    /\ sole = 0

Next ==
    \E r \in Requests :
        \/ Validate(r)
        \/ MakeDirs(r)
        \/ CleanInput(r)
        \/ CleanReport(r)
        \/ Read(r)
        \/ Upload(r)
        \/ Trigger(r)
        \/ Fetch(r)
        \/ Respond(r)
        \/ GetResults(r)

Spec == Init /\ [][Next]_vars

---------------------------------------------------------------------------
(* Specification of the filename functions: one filename, probed once by   *)
(* the first statement of an upload handler or by the report-name          *)
(* derivation of one of the four handlers                                  *)

IdleHandlers ==
    /\ req = [r \in Requests |-> NewRequest]
    /\ fs = {}
    /\ dirs = {}
    /\ remote = [inputs |-> {}, reports |-> {}]
    /\ loop = [w \in Workers |-> 0]
    /\ sole = 0

\* whether the handler of the endpoint gets as far as asking for a report
AsksReport(endpoint, filename) ==
    endpoint \in ResultsEndpoints \/ validation(endpoint, filename).status_code = 0

CaseVariants == {"lower"}
SpaceVariants == {"strip", "pad-left", "pad-right"}

\* a filename that differs from f only in letter case or outer whitespace
Variant(kind, f) ==
    CASE kind = "lower" -> LowerStr(f)
      [] kind = "strip" -> StripWs(f)
      [] kind = "pad-left" -> <<" ">> \o f
      [] kind = "pad-right" -> f \o <<" ">>

ProbeValidate ==
    \E e \in UploadEndpoints :
        LET exc == validation(e, fname)
        IN  /\ outcome = NoOutcome
            /\ outcome' = [NoOutcome EXCEPT
                  !.op = "validate", !.endpoint = e,
                  !.result = IF exc.status_code = 0 THEN "accepted" ELSE "rejected",
                  !.detail = exc.detail]
            /\ UNCHANGED <<fname, req, fs, dirs, remote, loop, sole>>

ProbeReport ==
    \E e \in Endpoints, kind \in CaseVariants \cup SpaceVariants :
        LET other == Variant(kind, fname)
        IN  /\ outcome = NoOutcome
            /\ AsksReport(e, fname)
            /\ AsksReport(e, other)
            /\ outcome' = [NoOutcome EXCEPT
                  !.op = "report", !.endpoint = e, !.result = kind,
                  !.other = other,
                  !.report = ReportNameOf(e, fname),
                  !.reportOther = ReportNameOf(e, other)]
            /\ UNCHANGED <<fname, req, fs, dirs, remote, loop, sole>>

InitNames ==
    /\ fname \in Filenames
    /\ outcome = NoOutcome
    /\ IdleHandlers

NextNames == ProbeValidate \/ ProbeReport

SpecNames == InitNames /\ [][NextNames]_vars

---------------------------------------------------------------------------
(* Properties of the filename functions                                    *)

\* s ends with the extension e, compared as written
EndsWith(s, e) ==
    Len(s) >= Len(e) /\ SubSeq(s, Len(s) - Len(e) + 1, Len(s)) = e

\* the last path component of f is some text that is not only dots,
\* followed by the extension e (of the form ".xyz")
HasExtension(f, e) ==
    /\ EndsWith(f, e)
    /\ LET front == SubSeq(f, 1, Len(f) - Len(e))
           start == RFind(front, "/") + 1
       IN  \E k \in start..Len(front) : front[k] # "."

\* C1 as stated: an upload is accepted exactly when the extension of the
\* filename, as written, is in the allow-set of the endpoint
C1_AsStated ==
    outcome.op = "validate" =>
        LET allow == IF outcome.endpoint = UPLOAD_EVM
                     THEN ALLOWED_EVM_EXTENSIONS ELSE ALLOWED_NON_EVM_EXTENSIONS
        IN  (outcome.result = "accepted") <=> (\E e \in allow : HasExtension(fname, e))

\* C1 (amended): an upload is accepted exactly when the extension of the
\* filename, lowercased, is in the allow-set of the endpoint (.sol, .txt for
\* upload-evm; .rs, .wasm for upload-non-evm); every other filename gets 400
C1_AcceptsLowercasedExtension ==
    outcome.op = "validate" =>
        LET allow == IF outcome.endpoint = UPLOAD_EVM
                     THEN ALLOWED_EVM_EXTENSIONS ELSE ALLOWED_NON_EVM_EXTENSIONS
        IN  (outcome.result = "accepted")
                <=> (\E e \in allow : HasExtension(LowerStr(fname), e))

\* an upload whose extension is written in upper case is accepted
C1_Witness ==
    /\ outcome.op = "validate"
    /\ outcome.result = "accepted"
    /\ ~(\E e \in ALLOWED_EVM_EXTENSIONS \cup ALLOWED_NON_EVM_EXTENSIONS :
            HasExtension(fname, e))

\* C3 as stated: two filenames that differ only in letter case or in outer
\* whitespace make a handler ask for the same report filename
C3_AsStated ==
    outcome.op = "report" => outcome.report = outcome.reportOther

\* the last dot of g, if any, is neither its first nor its last character,
\* and g does not end with a path separator
InnerDot(g) ==
    LET d == RFind(g, ".")
    IN  /\ d = 0 \/ (d > 1 /\ d < Len(g))
        /\ g = <<>> \/ g[Len(g)] # "/"

\* C3 (amended): every handler asks for lower(strip(stem(filename))) +
\* "-report.md". The name is the same for filenames that differ only in letter
\* case, and for filenames that differ only in outer whitespace in the upload
\* handlers (when both are accepted); in the results handlers it is the same
\* under outer whitespace provided the last dot of the whitespace-stripped
\* filename is neither its first nor its last character and the filename
\* does not end with "/"
C3_ReportNameInvariance ==
    outcome.op = "report" =>
        /\ outcome.report = LowerStr(StripWs(Stem(fname))) \o ReportSuffix
        /\ outcome.result \in CaseVariants => outcome.report = outcome.reportOther
        /\ (outcome.result \in SpaceVariants /\ outcome.endpoint \in UploadEndpoints)
              => outcome.report = outcome.reportOther
        /\ (outcome.result \in SpaceVariants /\ InnerDot(StripWs(fname)))
              => outcome.report = outcome.reportOther

\* a results handler asks for the same report for a padded mixed-case name
C3_Witness ==
    /\ outcome.op = "report"
    /\ outcome.endpoint \in ResultsEndpoints
    /\ outcome.result \in SpaceVariants
    /\ outcome.other # fname
    /\ LowerStr(fname) # fname
    /\ RFind(fname, ".") > 0
    /\ InnerDot(StripWs(fname))
    /\ outcome.report = outcome.reportOther

---------------------------------------------------------------------------
(* Properties of the handlers                                              *)

IsUpload(r) == req[r].endpoint \in UploadEndpoints
IsResults(r) == req[r].endpoint \in ResultsEndpoints
Status(r) == req[r].response.status

\* the contract type of a route, read off its path
OwnType(endpoint) ==
    IF endpoint \in {UPLOAD_NON_EVM, RESULTS_NON_EVM} THEN NON_EVM ELSE EVM

StartsWith(name, prefix) ==
    Len(name) >= Len(prefix) /\ SubSeq(name, 1, Len(prefix)) = prefix

IsPrefixSeq(s, t) == Len(s) <= Len(t) /\ s = SubSeq(t, 1, Len(s))

\* the two directories of the contract type of request r
InOwnDirs(r, f) ==
    f.type = OwnType(req[r].endpoint) /\ f.dir \in {INPUT_DIR, REPORT_DIR}

\* the files request r has removed
Removed(r) == req[r].attempted \ req[r].failed

\* C2 as stated: a 400 carries the extension of the filename as written
C2_AsStated ==
    \A r \in Requests :
        Status(r) = 400 => req[r].response.detail = SplitExt(req[r].filename)

\* C2 (amended): a rejected upload ends with 400 whose detail carries the
\* lowercased extension of the filename; 400 is the only status the handlers
\* raise themselves; the rejected request creates no directory, deletes no
\* file and calls the remote runner not at all
C2_RejectionInv ==
    \A r \in Requests :
        /\ Status(r) \in {0, 200, 400, 500}
        /\ (Status(r) = 400) <=> (req[r].raised = "validate")
        /\ Status(r) = 400 =>
              /\ IsUpload(r)
              /\ req[r].response.detail = LowerStr(SplitExt(req[r].filename))
              /\ \A e \in (IF OwnType(req[r].endpoint) = EVM
                          THEN ALLOWED_EVM_EXTENSIONS
                          ELSE ALLOWED_NON_EVM_EXTENSIONS) :
                    ~HasExtension(LowerStr(req[r].filename), e)
              /\ req[r].steps = <<"validate">>
              /\ req[r].made = {} /\ req[r].attempted = {} /\ req[r].calls = <<>>

\* C2 (amended), step part: the step that answers 400 changes no file, no
\* directory and nothing on the remote runner
C2_RejectionStep ==
    \A r \in Requests :
        (Status(r) # 400 /\ req'[r].response.status = 400)
            => UNCHANGED <<fs, dirs, remote>>

\* C2 (amended): a rejected upload answers 400 with the lowercased extension
\* in its detail, 400 is the only error the handlers raise themselves, and
\* the rejected request does no cleanup and calls the remote runner not at all
C2_Rejection == []C2_RejectionInv /\ [][C2_RejectionStep]_vars

\* an upload with an upper-case disallowed extension has been rejected
C2_Witness ==
    \E r \in Requests :
        /\ Status(r) = 400
        /\ SplitExt(req[r].filename) # LowerStr(SplitExt(req[r].filename))
        /\ fs # {}

\* C4 as stated: when the bytes are handed to the remote runner, no file
\* from before the request whose name starts with the base name remains in
\* the two directories of the contract type
C4_AsStated ==
    \A r \in Requests :
        (IsUpload(r) /\ req[r].pc = "upload") =>
            \A f \in fs \cap req[r].seen :
                InOwnDirs(r, f) => ~StartsWith(f.name, req[r].base)

\* the names the cleanup of base name b is after: those starting with b
\* (dot-files only when b starts with a dot); a b holding "*" is a pattern
Targets(name, b) ==
    IF \E i \in 1..Len(b) : b[i] = "*"
    THEN GlobNames({name}, b \o <<"*">>) # {}
    ELSE /\ StartsWith(name, b)
         /\ (name # <<>> /\ Head(name) = ".") => (b # <<>> /\ Head(b) = ".")

\* C4 (amended): when the bytes are handed to the remote runner, every file
\* from before the request that the pattern base_name* matches in the two
\* directories of the contract type has been removed, except the files whose
\* os.remove raised: those stay in place
C4_CleanedBeforeUpload ==
    \A r \in Requests :
        (IsUpload(r) /\ req[r].pc = "upload") =>
            \A f \in fs \cap req[r].seen :
                (InOwnDirs(r, f) /\ Targets(f.name, req[r].base))
                    => f \in req[r].failed

\* an upload reaches the remote upload having removed a report and an input
C4_Witness ==
    \E r \in Requests :
        /\ IsUpload(r) /\ req[r].pc = "upload"
        /\ \E f, g \in Removed(r) : f.dir = INPUT_DIR /\ g.dir = REPORT_DIR
        /\ req[r].failed = {}

\* C5 as stated: every response of the two results endpoints carries the
\* no-cache header
C5_AsStated ==
    \A r \in Requests :
        (IsResults(r) /\ Status(r) # 0)
            => req[r].response.cache_control = CACHE_CONTROL

\* C5 (amended): every response the two results handlers return carries the
\* Cache-Control header; when the remote fetch raises, the handler returns
\* nothing and the request ends as a server error without that header
C5_NoCacheOnReturn ==
    \A r \in Requests :
        IsResults(r) =>
            /\ Status(r) \in {0, 200, 500}
            /\ Status(r) = 200 => req[r].response.cache_control = CACHE_CONTROL
            /\ Status(r) = 500 => /\ req[r].raised = "fetch"
                                  /\ req[r].response.cache_control = None

\* a results handler has returned the report of an earlier upload
C5_Witness ==
    \E r, q \in Requests :
        /\ IsResults(r) /\ Status(r) = 200
        /\ IsUpload(q) /\ Status(q) = 200
        /\ req[r].response.aggregated_report = ReportOf(Payload(q))

\* C6 as stated: under every interleaving each upload answers with the logs
\* and the report of its own test run, as if it ran alone
C6_AsStated ==
    \A r \in Requests :
        (IsUpload(r) /\ Status(r) = 200) =>
            /\ req[r].response.docker_logs = LogsOf(Payload(r))
            /\ req[r].response.aggregated_report = ReportOf(Payload(r))

\* C7: an upload runs validate, cleanup, read, upload, trigger, fetch, return
\* in this order, each at most once; a step runs only after the earlier ones
\* completed; when a remote call raises the request ends as a server error
\* with no later step and no success JSON
C7_OrderInv ==
    \A r \in Requests :
        IsUpload(r) =>
            /\ IsPrefixSeq(req[r].steps, UploadOrder)
            /\ IsPrefixSeq([i \in 1..Len(req[r].calls) |-> req[r].calls[i].op],
                           <<"upload", "trigger", "fetch">>)
            /\ Status(r) = 200 <=> req[r].steps = UploadOrder
            /\ req[r].raised \in {"upload", "trigger", "fetch"} =>
                  /\ Status(r) = 500
                  /\ req[r].pc = "done"
                  /\ req[r].calls[Len(req[r].calls)].op = req[r].raised
                  /\ req[r].steps = SubSeq(UploadOrder, 1, 2 + Len(req[r].calls))

\* C7, step part: an answered request takes no further step; no step, in
\* particular none that ends a request as a server error, restores a removed
\* file or removes a directory
C7_OrderStep ==
    /\ \A r \in Requests : req[r].pc = "done" => req'[r] = req[r]
    /\ fs' \subseteq fs
    /\ dirs \subseteq dirs'

\* C7: every upload runs validate, cleanup, read, upload, trigger, fetch,
\* return in this order, each at most once; a raising remote call ends the
\* request as a server error with no later step and no success JSON, and the
\* cleanup already done is not undone
C7_StepOrder == []C7_OrderInv /\ [][C7_OrderStep]_vars

\* an upload that removed files ended as a server error in the test trigger
C7_Witness ==
    \E r \in Requests :
        /\ IsUpload(r) /\ req[r].raised = "trigger"
        /\ Removed(r) # {}
        /\ Removed(r) \cap fs = {}

C9_AsStated ==
    \A r \in Requests :
        /\ IsResults(r) => req[r].attempted = {}
        /\ \A f \in Removed(r) :
              InOwnDirs(r, f) /\ StartsWith(f.name, req[r].base)

\* C10: an upload and the results handler of the same type ask the runner
\* for the same (report filename, type) given the same filename; every call
\* of a handler carries the type of its own route; a results request that
\* directly follows an upload that ran alone returns the report it returned
C10_AgreeInv ==
    /\ \A r \in Requests : \A i \in 1..Len(req[r].calls) :
          req[r].calls[i].type = OwnType(req[r].endpoint)
    /\ \A u, g \in Requests :
          ( /\ IsUpload(u) /\ IsResults(g)
            /\ req[u].filename = req[g].filename
            /\ OwnType(req[u].endpoint) = OwnType(req[g].endpoint)
            /\ Len(req[u].calls) = 3 )
          => req[u].calls[3] = req[g].calls[1]

\* C10, step part: a results request that directly follows an upload that
\* ran alone, for the same filename and type, returns the upload's report
C10_AgreeStep ==
    \A u, g \in Requests :
        ( /\ sole = u /\ IsUpload(u) /\ Status(u) = 200
          /\ req[g].pc = "new" /\ req'[g].response.status = 200
          /\ req'[g].endpoint \in ResultsEndpoints
          /\ req'[g].filename = req[u].filename
          /\ OwnType(req'[g].endpoint) = OwnType(req[u].endpoint) )
        => req'[g].response.aggregated_report = req[u].response.aggregated_report

\* C10: upload and results handlers ask the runner for the same (report
\* filename, type) given the same filename, every call carries the type of
\* its own route, and a results request right after an upload that ran alone
\* returns the aggregated_report the upload returned
C10_UploadAndResultsAgree == []C10_AgreeInv /\ [][C10_AgreeStep]_vars

\* a results request returned the report of the mixed-case upload before it
C10_Witness ==
    \E u, g \in Requests :
        /\ IsUpload(u) /\ Status(u) = 200 /\ IsResults(g) /\ Status(g) = 200
        /\ req[u].filename = req[g].filename
        /\ LowerStr(req[u].filename) # req[u].filename
        /\ OwnType(req[u].endpoint) = OwnType(req[g].endpoint)
        /\ sole = g
        /\ req[g].response.aggregated_report = req[u].response.aggregated_report
============================================================================
